---- MODULE Spec2Model ----
(***************************************************************************)
(* Model of the PO-Tracker native backend (src-tauri/src/lib.rs): the      *)
(* loopback OAuth capture, the token and resource API clients, the Drive   *)
(* folder side step of create_google_form, and the e-mail senders.         *)
(*                                                                         *)
(* Text is modelled as a sequence of one-character strings, so that        *)
(* searching, formatting and encoding are computed as the code does.       *)
(***************************************************************************)
EXTENDS Integers, Sequences, FiniteSets, TLC

VARIABLES
    busy,       \* loopback ports held by other processes
    urlPool,    \* which request URLs the browser may send: "all" or "some"
    sres,       \* start_oauth_flow invocations: their results
    wait,       \* wait_for_oauth_callback invocations
    arrived,    \* per wait invocation: requests that reached its server
    answered,   \* per wait invocation: the requests it responded to, in order
    call,       \* invocations of the HTTP operations
    drive,      \* the remote Drive: folders named po-tracker, and file parents
    mail        \* send_gmail_email / send_invoice_email invocation

vars == <<busy, urlPool, sres, wait, arrived, answered, call, drive, mail>>

oauthVars == <<busy, urlPool, sres, wait, arrived, answered>>

\* Results are records: [st |-> "none"] until the invocation has returned, then
\* [st |-> "ok", ...] or [st |-> "err", err |-> ...].
None == [st |-> "none"]

----------------------------------------------------------------------------
(* Text helpers *)

\* The printable ASCII characters, 0x20 .. 0x7E, in code order (0x60 by name).
Printable == <<" ", "!", "\"", "#", "$", "%", "&", "'", "(", ")", "*", "+", ",", "-", ".", "/", "0", "1", "2", "3", "4", "5", "6", "7", "8", "9", ":", ";", "<", "=", ">", "?", "@", "A", "B", "C", "D", "E", "F", "G", "H", "I", "J", "K", "L", "M", "N", "O", "P", "Q", "R", "S", "T", "U", "V", "W", "X", "Y", "Z", "[", "\\", "]", "^", "_", "grave", "a", "b", "c", "d", "e", "f", "g", "h", "i", "j", "k", "l", "m", "n", "o", "p", "q", "r", "s", "t", "u", "v", "w", "x", "y", "z", "{", "|", "}", "~">>

\* The byte value (c as u8, as_bytes) of the characters the model uses.
AsU8(c) ==
    IF c = "\r" THEN 13
    ELSE IF c = "\n" THEN 10
    ELSE 31 + (CHOOSE i \in 1..Len(Printable) : Printable[i] = c)

HexDigits == <<"0", "1", "2", "3", "4", "5", "6", "7", "8", "9", "A", "B", "C", "D", "E", "F">>

DecDigits == <<"0", "1", "2", "3", "4", "5", "6", "7", "8", "9">>

\* format!("{}", n) of a non-negative integer.
RECURSIVE FormatInt(_)
FormatInt(n) ==
    IF n < 10 THEN <<DecDigits[n + 1]>>
    ELSE FormatInt(n \div 10) \o <<DecDigits[(n % 10) + 1]>>

\* str::find: the 0-based index of the first occurrence of pat in s, or -1.
RECURSIVE FindFrom(_, _, _)
FindFrom(s, pat, i) ==
    IF i + Len(pat) > Len(s) THEN -1
    ELSE IF SubSeq(s, i + 1, i + Len(pat)) = pat THEN i
    ELSE FindFrom(s, pat, i + 1)

Find(s, pat) == FindFrom(s, pat, 0)

\* &s[i..]
Tail0(s, i) == SubSeq(s, i + 1, Len(s))

\* &s[..i]
Head0(s, i) == SubSeq(s, 1, i)

RECURSIVE Concat(_)
Concat(ss) == IF ss = <<>> THEN <<>> ELSE Head(ss) \o Concat(Tail(ss))

RECURSIVE Join(_, _)
Join(ss, sep) ==
    IF ss = <<>> THEN <<>>
    ELSE IF Len(ss) = 1 THEN ss[1]
    ELSE ss[1] \o sep \o Join(Tail(ss), sep)

\* All sequences over S of length at most n.
SeqsUpTo(S, n) == UNION {[1..k -> S] : k \in 0..n}

----------------------------------------------------------------------------
(* urlencoding::encode *)

Unreserved ==
    {Printable[i] : i \in 34..59} \cup {Printable[i] : i \in 66..91}
        \cup {Printable[i] : i \in 17..26} \cup {"-", "_", ".", "~"}

EncodeChar(c) ==
    IF c \in Unreserved THEN <<c>>
    ELSE IF c = " " THEN <<"%", "2", "0">>
    ELSE <<"%", HexDigits[(AsU8(c) \div 16) + 1], HexDigits[(AsU8(c) % 16) + 1]>>

RECURSIVE encode(_)
encode(s) == IF s = <<>> THEN <<>> ELSE EncodeChar(Head(s)) \o encode(Tail(s))

----------------------------------------------------------------------------
(* Loopback OAuth capture: start_oauth_flow and wait_for_oauth_callback *)

StartPort == 8080
max_port == 8090

Ports == StartPort..max_port

MaxStarts == 2
MaxWaits == 2
MaxRequests == 2
MaxParams == 3

LocalhostPrefix == <<"h", "t", "t", "p", ":", "/", "/", "l", "o", "c", "a", "l", "h", "o", "s", "t", ":">>
CallbackPath == <<"/", "c", "a", "l", "l", "b", "a", "c", "k">>
CodeEq == <<"c", "o", "d", "e", "=">>

ErrNoPort == "Could not find an available port for OAuth callback"
ErrBind == "Failed to start callback server"
ErrNoCode == "No authorization code found in callback"
ErrStopped == "Server stopped without receiving callback"

\* The wait invocations whose tiny_http server currently holds its port.
Serving(w) == wait[w].pc \in {"listening", "received", "responded"}

\* Ports on which a bind succeeds now.
FreePorts == Ports \ (busy \cup {wait[w].port : w \in {x \in DOMAIN wait : Serving(x)}})

\* A scan that stops one port short of max_port.
RECURSIVE ScanPorts_StopsShort(_, _)
ScanPorts_StopsShort(port, free) ==
    IF port >= max_port THEN max_port + 1
    ELSE IF port \in free THEN port
    ELSE ScanPorts_StopsShort(port + 1, free)

\* The while loop of start_oauth_flow: the first port from port up whose
\* trial bind succeeds, or max_port + 1.
RECURSIVE ScanPorts(_, _)
ScanPorts(port, free) ==
    IF port > max_port THEN port
    ELSE IF port \in free THEN port
    ELSE ScanPorts(port + 1, free)

RedirectUri(port) == LocalhostPrefix \o FormatInt(port) \o CallbackPath

AuthUrl(client_id, port) ==
    [ endpoint      |-> "https://accounts.google.com/o/oauth2/v2/auth",
      client_id     |-> client_id,
      redirect_uri  |-> encode(RedirectUri(port)),
      response_type |-> "code",
      scope         |-> "scopes",
      access_type   |-> "offline",
      prompt        |-> "consent" ]

StartResult(client_id, free) ==
    LET port == ScanPorts(StartPort, free) IN
    IF port > max_port
    THEN [st |-> "err", err |-> ErrNoPort]
    ELSE [st |-> "ok", port |-> port, auth_url |-> AuthUrl(client_id, port)]

\* start_oauth_flow: the trial listener is a temporary dropped at once, so the
\* chosen port is not held afterwards.
StartOAuthFlow(s) ==
    /\ sres[s] = None
    /\ sres' = [sres EXCEPT ![s] = StartResult("client", FreePorts)]
    /\ UNCHANGED <<busy, urlPool, wait, arrived, answered, call, drive, mail>>

\* A parser that falls out of the request loop when the URL carries no code.
ExtractCode_FallsThrough(url) ==
    LET code_start == Find(url, CodeEq) IN
    IF code_start >= 0
    THEN LET code_part == Tail0(url, code_start + 5)
             amp_pos   == Find(code_part, <<"&">>)
         IN [st |-> "ok",
             val |-> IF amp_pos >= 0 THEN Head0(code_part, amp_pos) ELSE code_part]
    ELSE [st |-> "err", err |-> ErrStopped]

\* The code parameter as lines 373-384 extract it from the request URL.
ExtractCode(url) ==
    LET code_start == Find(url, CodeEq) IN
    IF code_start >= 0
    THEN LET code_part == Tail0(url, code_start + 5)
             amp_pos   == Find(code_part, <<"&">>)
         IN [st |-> "ok",
             val |-> IF amp_pos >= 0 THEN Head0(code_part, amp_pos) ELSE code_part]
    ELSE [st |-> "err", err |-> ErrNoCode]

\* taken: how many requests incoming_requests() has yielded; req: the one in hand.
IdleWait == [pc |-> "idle", port |-> 0, from |-> 0, taken |-> 0, req |-> 0,
             url |-> <<>>, result |-> None]

\* Starts whose returned port no wait invocation has been given yet.
Unclaimed == {s \in DOMAIN sres : sres[s].st = "ok"
                                  /\ \A w \in DOMAIN wait : wait[w].from # s}

\* Server::http(127.0.0.1:port) on the port a start returned.
WaitBind(w, s) ==
    LET port == sres[s].port IN
    IF port \in FreePorts
    THEN [IdleWait EXCEPT !.pc = "listening", !.port = port, !.from = s]
    ELSE [IdleWait EXCEPT !.pc = "terminated", !.port = port, !.from = s,
                          !.result = [st |-> "err", err |-> ErrBind]]

WaitStart(w) ==
    /\ wait[w].pc = "idle"
    /\ \E s \in Unclaimed : wait' = [wait EXCEPT ![w] = WaitBind(w, s)]
    /\ UNCHANGED <<busy, urlPool, sres, arrived, answered, call, drive, mail>>

\* The browser (or anything else) sends a request to a live callback server.
BrowserRequest(w) ==
    /\ Serving(w)
    /\ arrived[w] < MaxRequests
    /\ arrived' = [arrived EXCEPT ![w] = @ + 1]
    /\ UNCHANGED <<busy, urlPool, sres, wait, answered, call, drive, mail>>

\* Callback request URLs: /callback with up to MaxParams query parameters.
ParamNames == { <<"c", "o", "d", "e">>, <<"x", "c", "o", "d", "e">>, <<"s", "t", "a", "t", "e">> }
ParamValues == { <<"A", "B">>, <<"7">> }

Param(n, v) == n \o <<"=">> \o v

AllParams == {Param(n, v) : n \in ParamNames, v \in ParamValues}

UrlOf(params) ==
    IF params = <<>> THEN CallbackPath
    ELSE CallbackPath \o <<"?">> \o Join(params, <<"&">>)

AllUrls == {UrlOf(ps) : ps \in SeqsUpTo(AllParams, MaxParams)}

SomeUrls == { UrlOf(<<Param(<<"c", "o", "d", "e">>, <<"7">>)>>),
              UrlOf(<<Param(<<"s", "t", "a", "t", "e">>, <<"7">>)>>) }

\* The URLs a request may carry in this run.
Pool == IF urlPool = "all" THEN AllUrls ELSE SomeUrls

\* for request in server.incoming_requests() { let url = request.url() ...
WaitReceive(w) ==
    /\ wait[w].pc = "listening"
    /\ arrived[w] > wait[w].taken
    /\ \E u \in Pool :
         wait' = [wait EXCEPT ![w] = [@ EXCEPT !.pc = "received", !.taken = @ + 1,
                                               !.req = wait[w].taken + 1, !.url = u]]
    /\ UNCHANGED <<busy, urlPool, sres, arrived, answered, call, drive, mail>>

\* A handler that moves on without sending the confirmation page.
WaitRespond_Skipped(w) ==
    /\ wait[w].pc = "received"
    /\ wait' = [wait EXCEPT ![w] = [@ EXCEPT !.pc = "responded"]]
    /\ UNCHANGED <<busy, urlPool, sres, arrived, answered, call, drive, mail>>

\* let _ = request.respond(Response::from_string(response_html)...)
WaitRespond(w) ==
    /\ wait[w].pc = "received"
    /\ answered' = [answered EXCEPT ![w] = Append(@, wait[w].req)]
    /\ wait' = [wait EXCEPT ![w] = [@ EXCEPT !.pc = "responded"]]
    /\ UNCHANGED <<busy, urlPool, sres, arrived, call, drive, mail>>

\* Parse the code from the URL and return; the server is dropped.
WaitReturn(w) ==
    /\ wait[w].pc = "responded"
    /\ wait' = [wait EXCEPT ![w] = [@ EXCEPT !.pc = "terminated",
                                             !.result = ExtractCode(wait[w].url)]]
    /\ UNCHANGED <<busy, urlPool, sres, arrived, answered, call, drive, mail>>

\* incoming_requests() ends (the accept thread reported an I/O error).
WaitServerStopped(w) ==
    /\ wait[w].pc = "listening"
    /\ wait' = [wait EXCEPT ![w] = [@ EXCEPT !.pc = "terminated",
                                             !.result = [st |-> "err", err |-> ErrStopped]]]
    /\ UNCHANGED <<busy, urlPool, sres, arrived, answered, call, drive, mail>>

----------------------------------------------------------------------------
(* Specifications of the OAuth capture *)

\* The Drive as the requests see it: the po-tracker folders that are not
\* trashed, each form file's parents, and how many ids were handed out.
EmptyDrive == [folders |-> {}, parents |-> <<>>, made |-> 0]

IdleCalls == call = <<>> /\ drive = EmptyDrive /\ mail = None

InitOAuthWith(busySets, nStarts, nWaits, pool) ==
    /\ busy \in busySets
    /\ urlPool = pool
    /\ sres = [s \in 1..nStarts |-> None]
    /\ wait = [w \in 1..nWaits |-> IdleWait]
    /\ arrived = [w \in 1..nWaits |-> 0]
    /\ answered = [w \in 1..nWaits |-> <<>>]
    /\ IdleCalls

NextOAuth ==
    \/ \E s \in DOMAIN sres : StartOAuthFlow(s)
    \/ \E w \in DOMAIN wait : WaitStart(w)
    \/ \E w \in DOMAIN wait : BrowserRequest(w)
    \/ \E w \in DOMAIN wait : WaitReceive(w)
    \/ \E w \in DOMAIN wait : WaitRespond(w)
    \/ \E w \in DOMAIN wait : WaitReturn(w)
    \/ \E w \in DOMAIN wait : WaitServerStopped(w)

\* One capture, every callback URL of the pool.
InitCallback == InitOAuthWith(SUBSET {StartPort}, 1, 1, "all")
SpecCallback == InitCallback /\ [][NextOAuth]_vars

\* start_oauth_flow alone, under every occupancy of the port range by other
\* processes.
InitStart == InitOAuthWith(SUBSET Ports, MaxStarts, 0, "some")
NextStart == \E s \in DOMAIN sres : StartOAuthFlow(s)
SpecStart == InitStart /\ [][NextStart]_vars

\* Concurrent flows: several starts and several captures.
InitOAuth == InitOAuthWith(SUBSET {StartPort}, MaxStarts, MaxWaits, "some")
SpecOAuth == InitOAuth /\ [][NextOAuth]_vars

\* The same flows when every capture that can take its next step takes it:
\* the async runtime keeps polling a handler that is not blocked. Nothing
\* makes a browser send a request, and nothing makes the listener fail.
FairCapture ==
    \A w \in 1..MaxWaits :
        WF_vars(WaitReceive(w)) /\ WF_vars(WaitRespond(w)) /\ WF_vars(WaitReturn(w))
SpecOAuthFair == InitOAuth /\ [][NextOAuth]_vars /\ FairCapture

----------------------------------------------------------------------------
(* HTTP exchanges: what a request may come back with *)

MaxCalls == 2

\* response.status().is_success()
is_success(status) == status >= 200 /\ status < 300

Ok(v) == [st |-> "ok", val |-> v]
Err(text) == [st |-> "err", err |-> text]

\* JSON values. An object is [t |-> "obj", fields |-> [name |-> value]]; a body
\* that is not JSON at all is NotJson.
JStr(s) == [t |-> "str", v |-> s]
JNum(n) == [t |-> "num", v |-> n]
JArr(items) == [t |-> "arr", items |-> items]
JObj(fields) == [t |-> "obj", fields |-> fields]
JNull == [t |-> "null"]
NotJson == [t |-> "invalid"]

\* serde: a required field of the given JSON type is present.
Has(j, f, type) == f \in DOMAIN j.fields /\ j.fields[f].t = type

\* serde: an Option field is absent, null or of the given JSON type.
OptOk(j, f, type) == f \notin DOMAIN j.fields \/ j.fields[f].t \in {type, "null"}

\* serde: the value of an Option field, None as null.
Opt(j, f) == IF f \in DOMAIN j.fields THEN j.fields[f] ELSE JNull

\* A request that got no response, and a response with its status, its body
\* as text, and the body as JSON.
TransportError == [kind |-> "transport"]
HttpResponse(status, text, json) ==
    [kind |-> "http", status |-> status, text |-> text, json |-> json]

FailStatuses == {403, 500}

\* Display of a StatusCode.
Text403 ==
    <<"4", "0", "3", " ", "F", "o", "r", "b", "i", "d", "d", "e", "n">>

StatusText(status) == IF status = 403 THEN Text403 ELSE (* 500 Internal Server Error *) <<"5", "0", "0", " ", "I", "n", "t", "e", "r", "n", "a", "l", " ", "S", "e", "r", "v", "e", "r", " ", "E", "r", "r", "o", "r">>

\* Display of a reqwest::Error: the request could not be sent, or the body
\* could not be decoded.
SendErrorText ==
    <<"e", "r", "r", "o", "r", " ", "s", "e", "n", "d", "i", "n", "g", " ",
      "r", "e", "q", "u", "e", "s", "t">>

DecodeErrorText ==
    <<"e", "r", "r", "o", "r", " ", "d", "e", "c", "o", "d", "i", "n", "g",
      " ", "r", "e", "s", "p", "o", "n", "s", "e", " ", "b", "o", "d", "y">>

\* Bodies of error responses, as text.
BodyDenied ==
    <<"{", "\"", "e", "r", "r", "o", "r", "\"", ":", "\"", "d", "e", "n",
      "i", "e", "d", "\"", "}">>

ErrorTexts == {BodyDenied, <<>>}

\* The text of a 2xx body is not spelled out: the code reads such a body only
\* through its JSON parse.
JsonText == <<"{", "}">>

\* Every way a request can end, given the JSON bodies a 2xx may carry.
Responses(bodies) ==
    {TransportError}
        \cup {HttpResponse(s, t, NotJson) : s \in FailStatuses, t \in ErrorTexts}
        \cup {HttpResponse(200, JsonText, j) : j \in bodies \cup {NotJson}}

----------------------------------------------------------------------------
(* Token exchange and refresh, user info, form responses, form details *)

PfxExchangeSend ==
    <<"F", "a", "i", "l", "e", "d", " ", "t", "o", " ", "e", "x", "c", "h",
      "a", "n", "g", "e", " ", "c", "o", "d", "e", ":", " ">>

PfxTokenParse ==
    <<"F", "a", "i", "l", "e", "d", " ", "t", "o", " ", "p", "a", "r", "s",
      "e", " ", "t", "o", "k", "e", "n", " ", "r", "e", "s", "p", "o", "n",
      "s", "e", ":", " ">>

PfxUserInfo ==
    <<"F", "a", "i", "l", "e", "d", " ", "t", "o", " ", "g", "e", "t", " ",
      "u", "s", "e", "r", " ", "i", "n", "f", "o", ":", " ">>

PfxResponses ==
    <<"F", "a", "i", "l", "e", "d", " ", "t", "o", " ", "g", "e", "t", " ",
      "r", "e", "s", "p", "o", "n", "s", "e", "s", ":", " ">>

PfxDetails ==
    <<"F", "a", "i", "l", "e", "d", " ", "t", "o", " ", "g", "e", "t", " ",
      "f", "o", "r", "m", " ", "d", "e", "t", "a", "i", "l", "s", ":", " ">>

\* Bodies the token endpoint may answer with.
TokenFull ==
    JObj([access_token |-> JStr("at"), refresh_token |-> JStr("rt"),
          expires_in |-> JNum(3599), token_type |-> JStr("Bearer"),
          scope |-> JStr("drive")])
TokenNoRefresh ==
    JObj([access_token |-> JStr("at2"), expires_in |-> JNum(60),
          token_type |-> JStr("Bearer")])
TokenNullScope ==
    JObj([access_token |-> JStr("at"), refresh_token |-> JStr("rt"),
          expires_in |-> JNum(3599), token_type |-> JStr("Bearer"),
          scope |-> JNull, id_token |-> JStr("jwt")])
TokenNoExpiry == JObj([access_token |-> JStr("at"), token_type |-> JStr("Bearer")])
TokenTextExpiry ==
    JObj([access_token |-> JStr("at"), expires_in |-> JStr("3599"),
          token_type |-> JStr("Bearer")])
TokenBodies == {TokenFull, TokenNoRefresh, TokenNullScope, TokenNoExpiry,
                TokenTextExpiry, JArr(<<>>)}

\* serde's Deserialize of GoogleTokenResponse (lines 28-35).
GoogleTokenResponse(j) ==
    IF /\ j.t = "obj"
       /\ Has(j, "access_token", "str")
       /\ OptOk(j, "refresh_token", "str")
       /\ Has(j, "expires_in", "num")
       /\ Has(j, "token_type", "str")
       /\ OptOk(j, "scope", "str")
    THEN Ok([access_token  |-> j.fields.access_token,
             refresh_token |-> Opt(j, "refresh_token"),
             expires_in    |-> j.fields.expires_in,
             token_type    |-> j.fields.token_type,
             scope         |-> Opt(j, "scope")])
    ELSE Err(DecodeErrorText)

\* The contract every single-request operation follows: a transport error, a
\* non-2xx status with the body text, a body that does not deserialize, or the
\* deserialized value.
Outcome(r, sendPfx, statusPfx, parsePfx, parsed) ==
    IF r.kind = "transport" THEN Err(sendPfx \o SendErrorText)
    ELSE IF ~is_success(r.status) THEN Err(statusPfx \o r.text)
    ELSE IF parsed.st = "ok" THEN parsed
    ELSE Err(parsePfx \o parsed.err)

\* An exchange that hands every response to the JSON parser, whatever its status.
ExchangeResult_NoStatusCheck(r) ==
    IF r.kind = "transport" THEN Err(PfxExchangeSend \o SendErrorText)
    ELSE IF GoogleTokenResponse(r.json).st = "ok" THEN GoogleTokenResponse(r.json)
    ELSE Err(PfxTokenParse \o DecodeErrorText)

\* exchange_google_code, lines 428-443.
ExchangeResult(r) ==
    Outcome(r, PfxExchangeSend, (* Token exchange failed:  *) <<"T", "o", "k", "e", "n", " ", "e", "x", "c", "h", "a", "n", "g", "e", " ", "f", "a", "i", "l", "e", "d", ":", " ">>, PfxTokenParse,
            IF r.kind = "http" THEN GoogleTokenResponse(r.json) ELSE None)

\* refresh_google_token, lines 462-477.
RefreshResult(r) ==
    Outcome(r, (* Failed to refresh token:  *) <<"F", "a", "i", "l", "e", "d", " ", "t", "o", " ", "r", "e", "f", "r", "e", "s", "h", " ", "t", "o", "k", "e", "n", ":", " ">>, (* Token refresh failed:  *) <<"T", "o", "k", "e", "n", " ", "r", "e", "f", "r", "e", "s", "h", " ", "f", "a", "i", "l", "e", "d", ":", " ">>, PfxTokenParse,
            IF r.kind = "http" THEN GoogleTokenResponse(r.json) ELSE None)

UserInfoBodies ==
    { JObj([email |-> JStr("a@b.c"), name |-> JStr("A")]),
      JObj([email |-> JStr("a@b.c"), picture |-> JNull]),
      JObj([name |-> JStr("A")]) }

\* serde's Deserialize of GoogleUserInfo (lines 37-42).
GoogleUserInfo(j) ==
    IF j.t = "obj" /\ Has(j, "email", "str") /\ OptOk(j, "name", "str")
                   /\ OptOk(j, "picture", "str")
    THEN Ok([email |-> j.fields.email, name |-> Opt(j, "name"),
             picture |-> Opt(j, "picture")])
    ELSE Err(DecodeErrorText)

\* get_google_user_info, lines 485-500.
UserInfoResult(r) ==
    Outcome(r, PfxUserInfo, PfxUserInfo, (* Failed to parse user info:  *) <<"F", "a", "i", "l", "e", "d", " ", "t", "o", " ", "p", "a", "r", "s", "e", " ", "u", "s", "e", "r", " ", "i", "n", "f", "o", ":", " ">>,
            IF r.kind = "http" THEN GoogleUserInfo(r.json) ELSE None)

\* serde's Deserialize of FormResponse (lines 65-72); the answers map is
\* carried as it came.
FormResponse(j) ==
    /\ j.t = "obj"
    /\ Has(j, "responseId", "str")
    /\ Has(j, "createTime", "str")
    /\ OptOk(j, "answers", "obj")

FormResponsesBodies ==
    { JObj(<<>>),
      JObj([responses |-> JArr(<<JObj([responseId |-> JStr("r1"),
                                       createTime |-> JStr("t1")])>>)]),
      JObj([responses |-> JArr(<<JObj([responseId |-> JStr("r1")])>>)]),
      JObj([responses |-> JStr("none")]) }

\* serde's Deserialize of FormResponsesData (lines 60-63).
FormResponsesData(j) ==
    IF /\ j.t = "obj"
       /\ OptOk(j, "responses", "arr")
       /\ Opt(j, "responses").t = "arr" =>
             \A i \in DOMAIN j.fields.responses.items :
                 FormResponse(j.fields.responses.items[i])
    THEN Ok([responses |-> Opt(j, "responses")])
    ELSE Err(DecodeErrorText)

\* get_form_responses, lines 800-815.
FormResponsesResult(r) ==
    Outcome(r, PfxResponses, PfxResponses, (* Failed to parse responses:  *) <<"F", "a", "i", "l", "e", "d", " ", "t", "o", " ", "p", "a", "r", "s", "e", " ", "r", "e", "s", "p", "o", "n", "s", "e", "s", ":", " ">>,
            IF r.kind = "http" THEN FormResponsesData(r.json) ELSE None)

\* serde's Deserialize of FormItem (lines 99-117).
FormItem(j) ==
    /\ j.t = "obj"
    /\ Has(j, "itemId", "str")
    /\ OptOk(j, "title", "str")
    /\ OptOk(j, "questionItem", "obj")
    /\ Opt(j, "questionItem").t = "obj" =>
          /\ Has(j.fields.questionItem, "question", "obj")
          /\ Has(j.fields.questionItem.fields.question, "questionId", "str")

FormDetailsBodies ==
    { JObj([formId |-> JStr("f1")]),
      JObj([formId |-> JStr("f1"),
            items |-> JArr(<<JObj([itemId |-> JStr("i1"),
                                   questionItem |-> JObj([question |->
                                       JObj([questionId |-> JStr("q1")])])])>>)]),
      JObj([formId |-> JStr("f1"),
            items |-> JArr(<<JObj([itemId |-> JStr("i1"),
                                   questionItem |-> JObj(<<>>)])>>)]),
      JObj([items |-> JArr(<<>>)]) }

\* serde's Deserialize of GoogleFormDetails (lines 92-97).
GoogleFormDetails(j) ==
    IF /\ j.t = "obj"
       /\ Has(j, "formId", "str")
       /\ OptOk(j, "items", "arr")
       /\ Opt(j, "items").t = "arr" =>
             \A i \in DOMAIN j.fields.items.items : FormItem(j.fields.items.items[i])
    THEN Ok([formId |-> j.fields.formId, items |-> Opt(j, "items")])
    ELSE Err(DecodeErrorText)

\* get_form_details, lines 838-853.
FormDetailsResult(r) ==
    Outcome(r, PfxDetails, PfxDetails, (* Failed to parse form details:  *) <<"F", "a", "i", "l", "e", "d", " ", "t", "o", " ", "p", "a", "r", "s", "e", " ", "f", "o", "r", "m", " ", "d", "e", "t", "a", "i", "l", "s", ":", " ">>,
            IF r.kind = "http" THEN GoogleFormDetails(r.json) ELSE None)

IdleCall == [op |-> "none", pc |-> "idle", resp |-> None, result |-> None]

\* A single-request operation from invocation to return: the request is sent,
\* the server answers with r, the operation returns its reading of r.
Returned(op, r, result) == [op |-> op, pc |-> "done", resp |-> r, result |-> result]

exchange_google_code(c) ==
    /\ call[c].pc = "idle"
    /\ \E r \in Responses(TokenBodies) :
         call' = [call EXCEPT ![c] = Returned("exchange_google_code", r, ExchangeResult(r))]
    /\ UNCHANGED <<oauthVars, drive, mail>>

refresh_google_token(c) ==
    /\ call[c].pc = "idle"
    /\ \E r \in Responses(TokenBodies) :
         call' = [call EXCEPT ![c] = Returned("refresh_google_token", r, RefreshResult(r))]
    /\ UNCHANGED <<oauthVars, drive, mail>>

get_google_user_info(c) ==
    /\ call[c].pc = "idle"
    /\ \E r \in Responses(UserInfoBodies) :
         call' = [call EXCEPT ![c] = Returned("get_google_user_info", r, UserInfoResult(r))]
    /\ UNCHANGED <<oauthVars, drive, mail>>

get_form_responses(c) ==
    /\ call[c].pc = "idle"
    /\ \E r \in Responses(FormResponsesBodies) :
         call' = [call EXCEPT ![c] = Returned("get_form_responses", r, FormResponsesResult(r))]
    /\ UNCHANGED <<oauthVars, drive, mail>>

get_form_details(c) ==
    /\ call[c].pc = "idle"
    /\ \E r \in Responses(FormDetailsBodies) :
         call' = [call EXCEPT ![c] = Returned("get_form_details", r, FormDetailsResult(r))]
    /\ UNCHANGED <<oauthVars, drive, mail>>

IdleOAuth ==
    /\ busy = {}
    /\ urlPool = "some"
    /\ sres = <<>>
    /\ wait = <<>>
    /\ arrived = <<>>
    /\ answered = <<>>

InitApi ==
    /\ IdleOAuth
    /\ call = [c \in 1..MaxCalls |-> IdleCall]
    /\ drive = EmptyDrive
    /\ mail = None

NextApi ==
    \/ \E c \in DOMAIN call : exchange_google_code(c)
    \/ \E c \in DOMAIN call : refresh_google_token(c)
    \/ \E c \in DOMAIN call : get_google_user_info(c)
    \/ \E c \in DOMAIN call : get_form_responses(c)
    \/ \E c \in DOMAIN call : get_form_details(c)

\* The single-request operations, each invocation with every possible response.
SpecApi == InitApi /\ [][NextApi]_vars

----------------------------------------------------------------------------
(* create_google_form and scan_drive_forms against the remote Drive *)

MaxDriveCalls == 2

PfxCreateForm ==
    <<"F", "a", "i", "l", "e", "d", " ", "t", "o", " ", "c", "r", "e", "a",
      "t", "e", " ", "f", "o", "r", "m", ":", " ">>

PfxParseList ==
    <<"F", "a", "i", "l", "e", "d", " ", "t", "o", " ", "p", "a", "r", "s",
      "e", " ", "f", "i", "l", "e", " ", "l", "i", "s", "t", ":", " ">>

PfxMoveStatus ==
    <<"F", "a", "i", "l", "e", "d", " ", "t", "o", " ", "m", "o", "v", "e",
      " ", "f", "i", "l", "e", " ", "t", "o", " ", "f", "o", "l", "d", "e",
      "r", ":", " ">>

\* Identifiers the remote services hand out, in order of creation.
FileIds == <<"id1", "id2", "id3", "id4", "id5", "id6", "id7", "id8", "id9">>
Root == "root"
FolderMime == "application/vnd.google-apps.folder"
FormMime == "application/vnd.google-apps.form"

\* A Drive that already holds a po-tracker folder.
OneFolderDrive == [folders |-> {FileIds[1]}, parents |-> <<>>, made |-> 1]

NewId(d) == FileIds[d.made + 1]

\* The server's side of POST forms: a new form file under the root.
WithForm(d) ==
    [d EXCEPT !.parents = [f \in DOMAIN d.parents \cup {NewId(d)} |->
                              IF f = NewId(d) THEN {Root} ELSE d.parents[f]],
              !.made = @ + 1]

\* The server's side of POST files with the folder mime type.
WithFolder(d) == [d EXCEPT !.folders = @ \cup {NewId(d)}, !.made = @ + 1]

\* The server's side of PATCH files/id?addParents=..&removeParents=..
WithMove(d, file, add, remove) ==
    [d EXCEPT !.parents[file] = (@ \ remove) \cup {add}]

DriveFileJson(id, name, mime) ==
    JObj([id |-> JStr(id), name |-> JStr(name), mimeType |-> JStr(mime)])

RECURSIVE SetToSeq(_)
SetToSeq(S) ==
    IF S = {} THEN <<>>
    ELSE LET x == CHOOSE y \in S : TRUE IN <<x>> \o SetToSeq(S \ {x})

\* 2xx bodies of the requests, as the services build them.
FormCreatedBody(d, title) ==
    JObj([formId |-> JStr(NewId(d)),
          responderUri |-> JStr(<<"https://docs.google.com/forms/d/e/", NewId(d), "/viewform">>),
          info |-> JObj([title |-> JStr(title), documentTitle |-> JStr("Untitled form")])])

\* files.list answers in an order of the server's choosing: first is the
\* folder it puts first.
FolderListBody(d, first) ==
    JObj([files |-> JArr([i \in 1..Cardinality(d.folders) |->
             DriveFileJson((<<first>> \o SetToSeq(d.folders \ {first}))[i],
                           "po-tracker", FolderMime)])])

NoFolderListBody == JObj([files |-> JArr(<<>>)])

FolderCreatedBody(d) == DriveFileJson(NewId(d), "po-tracker", FolderMime)

\* files.get with fields=parents answers with the parents alone.
ParentsBody(d, file) ==
    JObj([parents |-> JArr([i \in 1..Cardinality(d.parents[file]) |->
                               JStr(SetToSeq(d.parents[file])[i])])])

FormsIn(d, folder) == {f \in DOMAIN d.parents : folder \in d.parents[f]}

FormListBody(d, folder) ==
    JObj([files |-> JArr([i \in 1..Cardinality(FormsIn(d, folder)) |->
             DriveFileJson(SetToSeq(FormsIn(d, folder))[i], "PO", FormMime)])])

\* A request that fails: no response, a refusal with a body, or a server
\* error with an empty one.
Failures ==
    {TransportError, HttpResponse(403, BodyDenied, NotJson), HttpResponse(500, <<>>, NotJson)}

\* A 2xx whose body is not the JSON the code expects.
Malformed == HttpResponse(200, JsonText, NotJson)

Good(json) == HttpResponse(200, JsonText, json)

\* serde's Deserialize of GoogleFormInfo and GoogleFormResponse (lines 44-58).
GoogleFormResponse(j) ==
    IF /\ j.t = "obj"
       /\ Has(j, "formId", "str")
       /\ Has(j, "responderUri", "str")
       /\ Has(j, "info", "obj")
       /\ Has(j.fields.info, "title", "str")
       /\ OptOk(j.fields.info, "documentTitle", "str")
    THEN Ok([formId |-> j.fields.formId.v,
             responderUri |-> j.fields.responderUri.v,
             info |-> [title |-> j.fields.info.fields.title.v,
                       documentTitle |-> Opt(j.fields.info, "documentTitle")]])
    ELSE Err(DecodeErrorText)

IsDriveFile(j) ==
    /\ j.t = "obj"
    /\ Has(j, "id", "str")
    /\ Has(j, "name", "str")
    /\ Has(j, "mimeType", "str")
    /\ OptOk(j, "parents", "arr")
    /\ Opt(j, "parents").t = "arr" =>
          \A i \in DOMAIN j.fields.parents.items : j.fields.parents.items[i].t = "str"

\* Option<Vec<String>>::unwrap_or_default of a parsed parents field.
ParentsOf(j) ==
    IF Opt(j, "parents").t = "arr"
    THEN {j.fields.parents.items[i].v : i \in DOMAIN j.fields.parents.items}
    ELSE {}

\* serde's Deserialize of DriveFile (lines 120-127).
DriveFile(j) ==
    IF IsDriveFile(j)
    THEN Ok([id |-> j.fields.id.v, name |-> j.fields.name.v,
             mime_type |-> j.fields.mimeType.v, parents |-> ParentsOf(j)])
    ELSE Err(DecodeErrorText)

\* serde's Deserialize of DriveFileList (lines 129-132).
DriveFileList(j) ==
    IF /\ j.t = "obj"
       /\ Has(j, "files", "arr")
       /\ \A i \in DOMAIN j.fields.files.items : IsDriveFile(j.fields.files.items[i])
    THEN Ok([i \in DOMAIN j.fields.files.items |-> DriveFile(j.fields.files.items[i]).val])
    ELSE Err(DecodeErrorText)

\* create_google_form, lines 620-636: the creation request.
CreateFormResult(r) ==
    Outcome(r, PfxCreateForm, PfxCreateForm, (* Failed to parse form response:  *) <<"F", "a", "i", "l", "e", "d", " ", "t", "o", " ", "p", "a", "r", "s", "e", " ", "f", "o", "r", "m", " ", "r", "e", "s", "p", "o", "n", "s", "e", ":", " ">>,
            IF r.kind = "http" THEN GoogleFormResponse(r.json) ELSE None)

NoFolder == [some |-> FALSE]
SomeFolder(id) == [some |-> TRUE, id |-> id]

\* find_folder, lines 506-530.
FindFolderResult(r) ==
    IF r.kind = "transport" THEN Err((* Failed to search folder:  *) <<"F", "a", "i", "l", "e", "d", " ", "t", "o", " ", "s", "e", "a", "r", "c", "h", " ", "f", "o", "l", "d", "e", "r", ":", " ">> \o SendErrorText)
    ELSE IF ~is_success(r.status) THEN Err((* Drive API error:  *) <<"D", "r", "i", "v", "e", " ", "A", "P", "I", " ", "e", "r", "r", "o", "r", ":", " ">> \o StatusText(r.status))
    ELSE LET list == DriveFileList(r.json) IN
         IF list.st = "err" THEN Err(PfxParseList \o list.err)
         ELSE Ok(IF list.val = <<>> THEN NoFolder ELSE SomeFolder(list.val[1].id))

\* create_folder, lines 533-557.
CreateFolderResult(r) ==
    IF r.kind = "transport" THEN Err((* Failed to create folder:  *) <<"F", "a", "i", "l", "e", "d", " ", "t", "o", " ", "c", "r", "e", "a", "t", "e", " ", "f", "o", "l", "d", "e", "r", ":", " ">> \o SendErrorText)
    ELSE IF ~is_success(r.status) THEN Err((* Drive API create error:  *) <<"D", "r", "i", "v", "e", " ", "A", "P", "I", " ", "c", "r", "e", "a", "t", "e", " ", "e", "r", "r", "o", "r", ":", " ">> \o StatusText(r.status))
    ELSE LET file == DriveFile(r.json) IN
         IF file.st = "err" THEN Err((* Failed to parse created folder:  *) <<"F", "a", "i", "l", "e", "d", " ", "t", "o", " ", "p", "a", "r", "s", "e", " ", "c", "r", "e", "a", "t", "e", "d", " ", "f", "o", "l", "d", "e", "r", ":", " ">> \o file.err) ELSE Ok(file.val.id)

\* move_file_to_folder, lines 567-585: the parents to remove.
GetParentsResult(r) ==
    IF r.kind = "transport" THEN Err((* Failed to get file parents:  *) <<"F", "a", "i", "l", "e", "d", " ", "t", "o", " ", "g", "e", "t", " ", "f", "i", "l", "e", " ", "p", "a", "r", "e", "n", "t", "s", ":", " ">> \o SendErrorText)
    ELSE IF is_success(r.status)
         THEN LET file == DriveFile(r.json) IN
              Ok(IF file.st = "ok" THEN file.val.parents ELSE {})
         ELSE Ok({})

\* move_file_to_folder, lines 588-603: the update of the parents.
PatchResult(r) ==
    IF r.kind = "transport" THEN Err((* Failed to move file:  *) <<"F", "a", "i", "l", "e", "d", " ", "t", "o", " ", "m", "o", "v", "e", " ", "f", "i", "l", "e", ":", " ">> \o SendErrorText)
    ELSE IF ~is_success(r.status) THEN Err(PfxMoveStatus \o StatusText(r.status))
    ELSE Ok("moved")

\* A create_google_form that propagates the failure of the move.
AfterMove_Propagates(form, moved) == IF moved.st = "err" THEN moved ELSE Ok(form)

\* create_google_form, lines 647-652: whatever the move did, return the form.
AfterMove(form, moved) == Ok(form)

\* scan_drive_forms, lines 672-701.
ListFormsResult(r) ==
    IF r.kind = "transport" THEN Err((* Failed to list files:  *) <<"F", "a", "i", "l", "e", "d", " ", "t", "o", " ", "l", "i", "s", "t", " ", "f", "i", "l", "e", "s", ":", " ">> \o SendErrorText)
    ELSE IF ~is_success(r.status) THEN Err((* Drive API list error:  *) <<"D", "r", "i", "v", "e", " ", "A", "P", "I", " ", "l", "i", "s", "t", " ", "e", "r", "r", "o", "r", ":", " ">> \o StatusText(r.status))
    ELSE LET list == DriveFileList(r.json) IN
         IF list.st = "err" THEN Err(PfxParseList \o list.err)
         ELSE Ok([i \in DOMAIN list.val |->
                     [form_id |-> list.val[i].id,
                      name |-> list.val[i].name,
                      url |-> <<"https://docs.google.com/forms/d/", list.val[i].id, "/edit">>,
                      responder_url |-> <<"https://docs.google.com/forms/d/",
                                          list.val[i].id, "/viewform">>]])

\* An invocation: its operation, its position, the last response it received,
\* the form record the service sent on creation, its locals, the warning it
\* printed, and its result.
IdleDriveCall ==
    [op |-> "none", pc |-> "idle", resp |-> None, created |-> None, form |-> None,
     folder_id |-> "", current_parents |-> {}, warning |-> None, result |-> None]

Finish(cl, r, result) == [cl EXCEPT !.pc = "done", !.resp = r, !.result = result]

\* Where an invocation goes once it knows the folder.
WithFolderId(cl, r, id) ==
    [cl EXCEPT !.resp = r, !.folder_id = id,
               !.pc = IF cl.op = "create_google_form" THEN "get_parents" ELSE "list"]

\* create_google_form up to the parsed answer of POST forms.
create_google_form(c) ==
    /\ call[c].pc = "idle"
    /\ \E r \in Failures \cup {Malformed, Good(FormCreatedBody(drive, "PO"))} :
         LET res == CreateFormResult(r)
             cl  == [call[c] EXCEPT !.op = "create_google_form"]
         IN IF res.st = "err"
            THEN /\ call' = [call EXCEPT ![c] = Finish(cl, r, res)]
                 /\ UNCHANGED drive
            ELSE /\ call' = [call EXCEPT ![c] =
                                [cl EXCEPT !.pc = "find", !.resp = r,
                                           !.created = r.json, !.form = res.val]]
                 /\ drive' = WithForm(drive)
    /\ UNCHANGED <<oauthVars, mail>>

\* scan_drive_forms is invoked.
scan_drive_forms(c) ==
    /\ call[c].pc = "idle"
    /\ call' = [call EXCEPT ![c] = [@ EXCEPT !.op = "scan_drive_forms", !.pc = "find"]]
    /\ UNCHANGED <<oauthVars, drive, mail>>

\* find_folder(..., "po-tracker") and the match on its result (lines 639-642,
\* 661-664).
find_folder(c) ==
    /\ call[c].pc = "find"
    /\ \E r \in Failures \cup {Malformed}
                  \cup (IF drive.folders = {} THEN {Good(NoFolderListBody)}
                        ELSE {Good(FolderListBody(drive, f)) : f \in drive.folders}) :
         LET res == FindFolderResult(r) IN
         call' = [call EXCEPT ![c] =
                     IF res.st = "err" THEN Finish(call[c], r, res)
                     ELSE IF res.val.some THEN WithFolderId(call[c], r, res.val.id)
                     ELSE [call[c] EXCEPT !.pc = "create_folder", !.resp = r]]
    /\ UNCHANGED <<oauthVars, drive, mail>>

\* create_folder(..., "po-tracker") when find_folder found none.
create_folder(c) ==
    /\ call[c].pc = "create_folder"
    /\ \E r \in Failures \cup {Malformed, Good(FolderCreatedBody(drive))} :
         LET res == CreateFolderResult(r) IN
         IF res.st = "err"
         THEN /\ call' = [call EXCEPT ![c] = Finish(call[c], r, res)]
              /\ UNCHANGED drive
         ELSE /\ call' = [call EXCEPT ![c] = WithFolderId(call[c], r, res.val)]
              /\ drive' = WithFolder(drive)
    /\ UNCHANGED <<oauthVars, mail>>

\* move_file_to_folder: GET files/id?fields=parents.
move_get_parents(c) ==
    /\ call[c].pc = "get_parents"
    /\ \E r \in Failures \cup {Malformed, Good(ParentsBody(drive, call[c].form.formId))} :
         LET res == GetParentsResult(r) IN
         call' = [call EXCEPT ![c] =
                     IF res.st = "err"
                     THEN [Finish(call[c], r, AfterMove(call[c].form, res))
                              EXCEPT !.warning = res]
                     ELSE [call[c] EXCEPT !.pc = "patch", !.resp = r,
                                          !.current_parents = res.val]]
    /\ UNCHANGED <<oauthVars, drive, mail>>

\* move_file_to_folder: PATCH files/id, then the return of create_google_form.
move_patch(c) ==
    /\ call[c].pc = "patch"
    /\ \E r \in Failures \cup {Good(JObj(<<>>))} :
         LET res == PatchResult(r) IN
         /\ call' = [call EXCEPT ![c] =
                        [Finish(call[c], r, AfterMove(call[c].form, res))
                            EXCEPT !.warning = IF res.st = "err" THEN res ELSE None]]
         /\ drive' = IF res.st = "ok"
                     THEN WithMove(drive, call[c].form.formId, call[c].folder_id,
                                   call[c].current_parents)
                     ELSE drive
    /\ UNCHANGED <<oauthVars, mail>>

\* scan_drive_forms: the listing of the folder's forms and the return.
list_forms(c) ==
    /\ call[c].pc = "list"
    /\ \E r \in Failures \cup {Malformed, Good(FormListBody(drive, call[c].folder_id))} :
         call' = [call EXCEPT ![c] = Finish(call[c], r, ListFormsResult(r))]
    /\ UNCHANGED <<oauthVars, drive, mail>>

Init ==
    /\ IdleOAuth
    /\ call = [c \in 1..MaxDriveCalls |-> IdleDriveCall]
    /\ drive \in {EmptyDrive, OneFolderDrive}
    /\ mail = None

Next ==
    \/ \E c \in DOMAIN call : create_google_form(c)
    \/ \E c \in DOMAIN call : scan_drive_forms(c)
    \/ \E c \in DOMAIN call : find_folder(c)
    \/ \E c \in DOMAIN call : create_folder(c)
    \/ \E c \in DOMAIN call : move_get_parents(c)
    \/ \E c \in DOMAIN call : move_patch(c)
    \/ \E c \in DOMAIN call : list_forms(c)

\* Concurrent create_google_form and scan_drive_forms invocations, every
\* request ending in every way it can.
Spec == Init /\ [][Next]_vars

\* The same invocations on a Drive that holds no po-tracker folder yet.
InitEmptyDrive == Init /\ drive = EmptyDrive
SpecEmptyDrive == InitEmptyDrive /\ [][Next]_vars

----------------------------------------------------------------------------
(* send_gmail_email *)

MaxBody == 1
MaxSubject == 2

\* The URL-safe base64 alphabet.
UrlSafeAlphabet ==
    <<"A", "B", "C", "D", "E", "F", "G", "H", "I", "J", "K", "L", "M", "N", "O", "P",
      "Q", "R", "S", "T", "U", "V", "W", "X", "Y", "Z", "a", "b", "c", "d", "e", "f",
      "g", "h", "i", "j", "k", "l", "m", "n", "o", "p", "q", "r", "s", "t", "u", "v",
      "w", "x", "y", "z", "0", "1", "2", "3", "4", "5", "6", "7", "8", "9", "-", "_">>

\* An engine that writes no padding.
URL_SAFE_NO_PAD == [alphabet |-> UrlSafeAlphabet, encode_padding |-> FALSE]

\* base64::engine::general_purpose::URL_SAFE: the URL-safe alphabet, with padding.
URL_SAFE == [alphabet |-> UrlSafeAlphabet, encode_padding |-> TRUE]

\* Engine::encode: three bytes to four characters; a last group of one or two
\* bytes to two or three characters, padded with "=" when the engine pads.
RECURSIVE EngineEncode(_, _)
EngineEncode(engine, bytes) ==
    LET a == engine.alphabet
        n == Len(bytes)
    IN IF n = 0 THEN <<>>
       ELSE IF n = 1
            THEN <<a[(bytes[1] \div 4) + 1], a[((bytes[1] % 4) * 16) + 1]>>
                     \o (IF engine.encode_padding THEN <<"=", "=">> ELSE <<>>)
       ELSE IF n = 2
            THEN <<a[(bytes[1] \div 4) + 1],
                   a[((bytes[1] % 4) * 16) + (bytes[2] \div 16) + 1],
                   a[((bytes[2] % 16) * 4) + 1]>>
                     \o (IF engine.encode_padding THEN <<"=">> ELSE <<>>)
       ELSE <<a[(bytes[1] \div 4) + 1],
              a[((bytes[1] % 4) * 16) + (bytes[2] \div 16) + 1],
              a[((bytes[2] % 16) * 4) + (bytes[3] \div 64) + 1],
              a[(bytes[3] % 64) + 1]>>
                \o EngineEncode(engine, Tail0(bytes, 3))

\* str::as_bytes of ASCII text.
as_bytes(s) == [i \in 1..Len(s) |-> AsU8(s[i])]

\* The format! of lines 209-212.
EmailContent(a) ==
    (* From:  *) <<"F", "r", "o", "m", ":", " ">> \o a.from_name \o <<" ", "<">> \o a.from_email \o <<">">>
        \o (* \r\nTo:  *) <<"\r", "\n", "T", "o", ":", " ">> \o a.to_name \o <<" ", "<">> \o a.to_email \o <<">">>
        \o (* \r\nSubject:  *) <<"\r", "\n", "S", "u", "b", "j", "e", "c", "t", ":", " ">> \o a.subject \o (* \r\nMIME-Version: 1.0\r\nContent-Type: text/html; charset=utf-8\r\n\r\n *) <<"\r", "\n", "M", "I", "M", "E", "-", "V", "e", "r", "s", "i", "o", "n", ":", " ", "1", ".", "0", "\r", "\n", "C", "o", "n", "t", "e", "n", "t", "-", "T", "y", "p", "e", ":", " ", "t", "e", "x", "t", "/", "h", "t", "m", "l", ";", " ", "c", "h", "a", "r", "s", "e", "t", "=", "u", "t", "f", "-", "8", "\r", "\n", "\r", "\n">> \o a.html_body

\* The JSON body posted to users/me/messages/send (lines 215-221).
GmailBody(a) == JObj([raw |-> JStr(EngineEncode(URL_SAFE, as_bytes(EmailContent(a))))])

\* send_gmail_email, lines 223-236.
GmailResult(r) ==
    IF r.kind = "transport" THEN Err((* Failed to send email via Gmail:  *) <<"F", "a", "i", "l", "e", "d", " ", "t", "o", " ", "s", "e", "n", "d", " ", "e", "m", "a", "i", "l", " ", "v", "i", "a", " ", "G", "m", "a", "i", "l", ":", " ">> \o SendErrorText)
    ELSE IF ~is_success(r.status) THEN Err((* Gmail API error:  *) <<"G", "m", "a", "i", "l", " ", "A", "P", "I", " ", "e", "r", "r", "o", "r", ":", " ">> \o r.text)
    ELSE Ok((* Email sent successfully via Gmail *) <<"E", "m", "a", "i", "l", " ", "s", "e", "n", "t", " ", "s", "u", "c", "c", "e", "s", "s", "f", "u", "l", "l", "y", " ", "v", "i", "a", " ", "G", "m", "a", "i", "l">>)

\* Texts the caller may pass: ASCII with line breaks among the characters.
TextChars == {"h", "\r", "\n"}

MailArgs ==
    [ from_name : {<<"P", "O">>}, from_email : {<<"a", "@", "x">>},
      to_name : {<<"B">>, <<"B", "o">>}, to_email : {<<"b", "@", "y">>},
      subject : SeqsUpTo(TextChars, MaxSubject),
      html_body : SeqsUpTo(TextChars, MaxBody) ]

IdleMail(args) ==
    [op |-> "none", pc |-> "idle", args |-> args, email_content |-> <<>>,
     body |-> None, resp |-> None, smtp_port |-> 0, from |-> <<>>, mailer |-> None,
     result |-> None]

send_gmail_email ==
    /\ mail.pc = "idle"
    /\ \E r \in Responses({JObj([id |-> JStr("m1")])}) :
         mail' = [mail EXCEPT !.op = "send_gmail_email", !.pc = "done",
                              !.email_content = EmailContent(mail.args),
                              !.body = GmailBody(mail.args), !.resp = r,
                              !.result = GmailResult(r)]
    /\ UNCHANGED <<oauthVars, call, drive>>

InitMail ==
    /\ IdleOAuth
    /\ call = <<>>
    /\ drive = EmptyDrive
    /\ mail \in {IdleMail(a) : a \in MailArgs}

NextMail == send_gmail_email

\* The e-mail senders, for every message of the bounded argument sets.
SpecMail == InitMail /\ [][NextMail]_vars

----------------------------------------------------------------------------
(* send_invoice_email *)

\* smtp_port values the settings may hold: an i32, up to both of its ends.
SmtpPorts == {25, 465, 587, 65535, 65536, 65561, -1, 2147483647, -2147483647 - 1}

\* smtp_settings.smtp_port as u16: the low sixteen bits.
as_u16(x) == x % 65536

\* Display of a lettre error; its text is not spelled out.
LettreErrorText == <<"l", "e", "t", "t", "r", "e", " ", "e", "r", "r", "o", "r">>

\* How far the lettre calls get: the from mailbox, the to mailbox, the
\* message, the relay, the delivery.
LettreOutcomes == {"from", "to", "build", "relay", "send", "ok"}

\* smtp_settings.from_name.unwrap_or_else(|| "POTracker".to_string())
FromName(opt) == IF opt.some THEN opt.v ELSE <<"P", "O", "T", "r", "a", "c", "k", "e", "r">>

\* format!("{} <{}>", name, email)
MailboxText(name, email) == name \o <<" ", "<">> \o email \o <<">">>

\* send_invoice_email, lines 166-192.
InvoiceResult(o) ==
    IF o = "from" THEN Err((* Invalid from address:  *) <<"I", "n", "v", "a", "l", "i", "d", " ", "f", "r", "o", "m", " ", "a", "d", "d", "r", "e", "s", "s", ":", " ">> \o LettreErrorText)
    ELSE IF o = "to" THEN Err((* Invalid to address:  *) <<"I", "n", "v", "a", "l", "i", "d", " ", "t", "o", " ", "a", "d", "d", "r", "e", "s", "s", ":", " ">> \o LettreErrorText)
    ELSE IF o = "build" THEN Err((* Failed to build email:  *) <<"F", "a", "i", "l", "e", "d", " ", "t", "o", " ", "b", "u", "i", "l", "d", " ", "e", "m", "a", "i", "l", ":", " ">> \o LettreErrorText)
    ELSE IF o = "relay" THEN Err((* Failed to create SMTP transport:  *) <<"F", "a", "i", "l", "e", "d", " ", "t", "o", " ", "c", "r", "e", "a", "t", "e", " ", "S", "M", "T", "P", " ", "t", "r", "a", "n", "s", "p", "o", "r", "t", ":", " ">> \o LettreErrorText)
    ELSE IF o = "send" THEN Err((* Failed to send email:  *) <<"F", "a", "i", "l", "e", "d", " ", "t", "o", " ", "s", "e", "n", "d", " ", "e", "m", "a", "i", "l", ":", " ">> \o LettreErrorText)
    ELSE Ok((* Email sent successfully *) <<"E", "m", "a", "i", "l", " ", "s", "e", "n", "t", " ", "s", "u", "c", "c", "e", "s", "s", "f", "u", "l", "l", "y">>)

\* The transport of lines 182-186, built once relay() succeeded.
Mailer(o, smtp_port) ==
    IF o \in {"send", "ok"} THEN [st |-> "built", port |-> as_u16(smtp_port)] ELSE None

SmtpArgs ==
    [ from_name : {<<"P", "O">>}, from_email : {<<"a", "@", "x">>},
      to_name : {<<"B">>, <<"B", "o">>}, to_email : {<<"b", "@", "y">>},
      subject : {<<"H", "i">>}, html_body : {<<"<", "p", ">">>} ]

send_invoice_email ==
    /\ mail.pc = "idle"
    /\ \E p \in SmtpPorts, o \in LettreOutcomes,
          fn \in {[some |-> FALSE], [some |-> TRUE, v |-> mail.args.from_name]} :
         mail' = [mail EXCEPT !.op = "send_invoice_email", !.pc = "done",
                              !.smtp_port = p,
                              !.from = MailboxText(FromName(fn), mail.args.from_email),
                              !.mailer = Mailer(o, p),
                              !.result = InvoiceResult(o)]
    /\ UNCHANGED <<oauthVars, call, drive>>

InitSmtp ==
    /\ IdleOAuth
    /\ call = <<>>
    /\ drive = EmptyDrive
    /\ mail \in {IdleMail(a) : a \in SmtpArgs}

NextSmtp == send_invoice_email

\* The SMTP sender, for every port of SmtpPorts.
SpecSmtp == InitSmtp /\ [][NextSmtp]_vars

----------------------------------------------------------------------------
(* add_form_questions *)

MaxQuestions == 2

JBool(b) == [t |-> "bool", v |-> b]

\* serde_json's value[key]: the member of an object, Null for anything else.
Index(j, key) == IF j.t = "obj" /\ key \in DOMAIN j.fields THEN j.fields[key] ELSE JNull

\* question["name"].as_str().unwrap_or("Product")
NameOrProduct(q) ==
    IF Index(q, "name").t = "str" THEN Index(q, "name").v ELSE <<"P", "r", "o", "d", "u", "c", "t">>

\* question["price"].as_f64().unwrap_or(0.0); the numbers here are whole.
PriceOrZero(q) == IF Index(q, "price").t = "num" THEN Index(q, "price").v ELSE 0

\* format!("{:.2}", x) of a whole number.
FormatPrice(x) == FormatInt(x) \o <<".", "0", "0">>

\* The questionItem of every created item (a short text question).
QuestionItemJson(required) ==
    JObj([question |-> JObj([required |-> JBool(required),
                             textQuestion |-> JObj([paragraph |-> JBool(FALSE)])])])

\* The two items every form starts with (lines 715-746).
FixedItem(title, index) ==
    JObj([createItem |->
        JObj([item |-> JObj([title |-> JStr(title),
                             questionItem |-> QuestionItemJson(TRUE)]),
              location |-> JObj([index |-> JNum(index)])])])

\* An index that lands on the item before.
QuestionIndex_OffByOne(idx) == idx + 1

\* "location": { "index": idx + 2 }
QuestionIndex(idx) == idx + 2

\* The item of the idx-th supplied question (lines 750-767).
QuestionItem(q, idx) ==
    JObj([createItem |->
        JObj([item |-> JObj([title |-> JStr((* Quantity:  *) <<"Q", "u", "a", "n", "t", "i", "t", "y", ":", " ">> \o NameOrProduct(q)),
                             description |-> JStr((* Price: $ *) <<"P", "r", "i", "c", "e", ":", " ", "$">> \o FormatPrice(PriceOrZero(q))),
                             questionItem |-> QuestionItemJson(FALSE)]),
              location |-> JObj([index |-> JNum(QuestionIndex(idx))])])])

\* let mut requests = vec![..]; for (idx, question) in questions.iter().enumerate()
BatchRequests(questions) ==
    <<FixedItem(<<"Y", "o", "u", "r", " ", "N", "a", "m", "e">>, 0), FixedItem(<<"Y", "o", "u", "r", " ", "E", "m", "a", "i", "l">>, 1)>>
        \o [i \in 1..Len(questions) |-> QuestionItem(questions[i], i - 1)]

\* add_form_questions, lines 773-789.
AddQuestionsResult(r) ==
    IF r.kind = "transport" THEN Err((* Failed to add questions:  *) <<"F", "a", "i", "l", "e", "d", " ", "t", "o", " ", "a", "d", "d", " ", "q", "u", "e", "s", "t", "i", "o", "n", "s", ":", " ">> \o SendErrorText)
    ELSE IF ~is_success(r.status) THEN Err((* Failed to add questions:  *) <<"F", "a", "i", "l", "e", "d", " ", "t", "o", " ", "a", "d", "d", " ", "q", "u", "e", "s", "t", "i", "o", "n", "s", ":", " ">> \o r.text)
    ELSE Ok((* Questions added successfully *) <<"Q", "u", "e", "s", "t", "i", "o", "n", "s", " ", "a", "d", "d", "e", "d", " ", "s", "u", "c", "c", "e", "s", "s", "f", "u", "l", "l", "y">>)

\* Questions the caller may pass: a product, a product without a name, one
\* whose members have other types, and a value that is no object.
QuestionValues ==
    { JObj([name |-> JStr(<<"T", "e", "a">>), price |-> JNum(5)]),
      JObj([price |-> JNum(12)]),
      JObj([name |-> JArr(<<>>), price |-> JNull]),
      JStr(<<"x">>) }

IdleQuestionsCall(questions) ==
    [op |-> "none", pc |-> "idle", questions |-> questions, posted |-> <<>>,
     resp |-> None, result |-> None]

add_form_questions(c) ==
    /\ call[c].pc = "idle"
    /\ \E r \in Responses({JObj(<<>>)}) :
         call' = [call EXCEPT ![c] =
                     [@ EXCEPT !.op = "add_form_questions", !.pc = "done",
                               !.posted = Append(@,
                                   JObj([requests |-> JArr(BatchRequests(call[c].questions))])),
                               !.resp = r, !.result = AddQuestionsResult(r)]]
    /\ UNCHANGED <<oauthVars, drive, mail>>

InitQuestions ==
    /\ IdleOAuth
    /\ call \in {<<IdleQuestionsCall(qs)>> : qs \in SeqsUpTo(QuestionValues, MaxQuestions)}
    /\ drive = EmptyDrive
    /\ mail = None

NextQuestions == \E c \in DOMAIN call : add_form_questions(c)

\* add_form_questions for every list of up to MaxQuestions questions.
SpecQuestions == InitQuestions /\ [][NextQuestions]_vars

----------------------------------------------------------------------------
(* Reference readings of a URL, used to state the properties *)

\* s split at every occurrence of the one-character separator sep.
RECURSIVE Split(_, _)
Split(s, sep) ==
    LET i == Find(s, <<sep>>) IN
    IF i < 0 THEN <<s>> ELSE <<Head0(s, i)>> \o Split(Tail0(s, i + 1), sep)

\* The query string of a request URL: what follows its first "?".
QueryOf(url) ==
    LET q == Find(url, <<"?">>) IN IF q < 0 THEN <<>> ELSE Tail0(url, q + 1)

\* name=value pairs of the query string, in order.
QueryParams(url) ==
    LET parts == IF QueryOf(url) = <<>> THEN <<>> ELSE Split(QueryOf(url), "&")
        Pair(p) == LET e == Find(p, <<"=">>) IN
                   IF e < 0 THEN [name |-> p, value |-> <<>>]
                   ELSE [name |-> Head0(p, e), value |-> Tail0(p, e + 1)]
    IN [i \in 1..Len(parts) |-> Pair(parts[i])]

CodeName == <<"c", "o", "d", "e">>

HasCodeParam(url) == \E i \in DOMAIN QueryParams(url) : QueryParams(url)[i].name = CodeName

\* The value of the first parameter named code.
CodeParam(url) ==
    LET ps == QueryParams(url)
        i  == CHOOSE k \in DOMAIN ps :
                 ps[k].name = CodeName /\ \A j \in 1..(k - 1) : ps[j].name # CodeName
    IN ps[i].value

ContainsCodeEq(url) == \E i \in 1..(Len(url) - 4) : SubSeq(url, i, i + 4) = CodeEq

HexValue(c) == (CHOOSE i \in 1..16 : HexDigits[i] = c) - 1

\* Percent-decoding of text whose escapes are %XX.
RECURSIVE PercentDecode(_)
PercentDecode(s) ==
    IF s = <<>> THEN <<>>
    ELSE IF s[1] = "%"
         THEN <<Printable[16 * HexValue(s[2]) + HexValue(s[3]) - 31]>>
                  \o PercentDecode(Tail0(s, 3))
         ELSE <<s[1]>> \o PercentDecode(Tail(s))

IsDigits(s) == s # <<>> /\ \A i \in 1..Len(s) : \E d \in 1..10 : DecDigits[d] = s[i]

RECURSIVE ParseInt(_)
ParseInt(s) ==
    IF s = <<>> THEN 0
    ELSE 10 * ParseInt(Head0(s, Len(s) - 1))
           + (CHOOSE d \in 1..10 : DecDigits[d] = s[Len(s)]) - 1

\* The port named by the redirect URI http://localhost:<port>/callback, or -1.
RedirectPort(uri) ==
    LET n   == Len(uri)
        mid == SubSeq(uri, Len(LocalhostPrefix) + 1, n - Len(CallbackPath))
    IN IF /\ n > Len(LocalhostPrefix) + Len(CallbackPath)
          /\ Head0(uri, Len(LocalhostPrefix)) = LocalhostPrefix
          /\ Tail0(uri, n - Len(CallbackPath)) = CallbackPath
          /\ IsDigits(mid)
       THEN ParseInt(mid) ELSE -1

\* A wait invocation that returned after taking a request from its server.
Handled(w) == wait[w].pc = "terminated" /\ wait[w].taken > 0

\* The capture of start s has completed.
Captured(s) == \E w \in DOMAIN wait : wait[w].from = s /\ wait[w].pc = "terminated"

----------------------------------------------------------------------------
(* Properties of the OAuth capture *)

\* C4: whenever the callback URL's query string has a parameter named code with
\* value V, at any position and after any other parameters,
\* wait_for_oauth_callback returns Ok(V).
C4_CodeParamReturned ==
    \A w \in DOMAIN wait :
        (Handled(w) /\ HasCodeParam(wait[w].url))
            => wait[w].result = [st |-> "ok", val |-> CodeParam(wait[w].url)]

\* C5: a callback URL without the substring code= makes wait_for_oauth_callback
\* return the missing-code error, never another error.
C5_MissingCode ==
    \A w \in DOMAIN wait :
        (Handled(w) /\ ~ContainsCodeEq(wait[w].url))
            => wait[w].result = [st |-> "err", err |-> ErrNoCode]

C5_Witness ==
    \E w \in DOMAIN wait :
        /\ Handled(w)
        /\ ~ContainsCodeEq(wait[w].url)
        /\ QueryParams(wait[w].url) # <<>>
        /\ wait[w].result = [st |-> "err", err |-> ErrNoCode]

C6_Shape ==
    \A w \in DOMAIN wait :
        /\ wait[w].taken <= 1
        /\ wait[w].pc \in {"idle", "listening"} => wait[w].taken = 0 /\ answered[w] = <<>>
        /\ wait[w].pc = "received" => wait[w].req = 1 /\ answered[w] = <<>>
        /\ wait[w].pc = "responded" => wait[w].req = 1 /\ answered[w] = <<1>>
        /\ Handled(w) => answered[w] = <<1>> /\ wait[w].result.st # "none"
        /\ (wait[w].pc = "terminated" /\ wait[w].taken = 0) => answered[w] = <<>>

C6_Edges ==
    \A w \in DOMAIN wait :
        \/ wait'[w].pc = wait[w].pc
        \/ <<wait[w].pc, wait'[w].pc>> \in
              { <<"idle", "listening">>, <<"idle", "terminated">>,
                <<"listening", "received">>, <<"listening", "terminated">>,
                <<"received", "responded">>, <<"responded", "terminated">> }

\* C6: an invocation of wait_for_oauth_callback goes listening -> received ->
\* terminated: it takes exactly the first request that reaches its server,
\* answers that request before it returns (with or without a code), and once
\* terminated answers nothing more.
C6_OneShot == []C6_Shape /\ [][C6_Edges]_vars

C6_Witness ==
    \E w \in DOMAIN wait :
        /\ Handled(w)
        /\ arrived[w] = 2
        /\ answered[w] = <<1>>
        /\ wait[w].result.st = "err"

Min(S) == CHOOSE x \in S : \A y \in S : x <= y

C7_Step ==
    \A s \in DOMAIN sres :
        (sres[s].st = "none" /\ sres'[s].st # "none") =>
            IF FreePorts = {}
            THEN sres'[s] = [st |-> "err", err |-> ErrNoPort]
            ELSE /\ sres'[s].st = "ok"
                 /\ sres'[s].port = Min(FreePorts)
                 /\ RedirectPort(PercentDecode(sres'[s].auth_url.redirect_uri))
                        = sres'[s].port

\* C7: start_oauth_flow returns the lowest free port of 8080..8090, the same
\* port its auth_url's redirect URI names; with no port free it returns the
\* no-available-port error and no port.
C7_LowestFreePort == [][C7_Step]_vars

C7_Witness ==
    /\ busy = {StartPort, StartPort + 1, StartPort + 3}
    /\ \E s \in DOMAIN sres :
          /\ sres[s].st = "ok"
          /\ sres[s].port = StartPort + 2
          /\ RedirectPort(PercentDecode(sres[s].auth_url.redirect_uri)) = StartPort + 2

C8_StartStep ==
    \A s \in DOMAIN sres :
        (sres[s].st = "none" /\ sres'[s].st = "ok") =>
            \A t \in DOMAIN sres \ {s} :
                (sres[t].st = "ok" /\ sres[t].port = sres'[s].port) => Captured(t)

C8_NoLostPort ==
    \A w \in DOMAIN wait : wait[w].result # [st |-> "err", err |-> ErrBind]

\* C8: the port start_oauth_flow chose stays bound until wait_for_oauth_callback
\* listens on it: two starts with no completed capture in between never get the
\* same port, and a wait on the returned port never fails to bind because
\* another invocation holds it.
C8_PortStaysBound == [][C8_StartStep]_vars /\ []C8_NoLostPort

----------------------------------------------------------------------------
(* Properties of the token operations *)

StartsWith(s, pfx) == Len(s) >= Len(pfx) /\ Head0(s, Len(pfx)) = pfx

EndsWith(s, sfx) == Len(s) >= Len(sfx) /\ Tail0(s, Len(s) - Len(sfx)) = sfx

\* The token bodies that are valid token records: the three required fields
\* with their JSON types, the optional ones absent, null or text.
ValidTokenBodies == {TokenFull, TokenNoRefresh, TokenNullScope}

TokenFields == {"access_token", "refresh_token", "expires_in", "token_type", "scope"}

\* What happened to the request, read off the response alone.
TokenOutcome(r) ==
    IF r.kind = "transport" THEN "transport"
    ELSE IF r.status \in FailStatuses THEN "status"
    ELSE IF r.json \in ValidTokenBodies THEN "valid"
    ELSE "malformed"

TokenCalls ==
    {c \in DOMAIN call : call[c].op \in {"exchange_google_code", "refresh_google_token"}}

\* C9: exchange_google_code and refresh_google_token end in one of four
\* outcomes that their results tell apart: a transport failure, a non-2xx
\* failure carrying the body text, a distinct "Failed to parse token response"
\* failure for a 2xx body that is no token record, and for a valid token
\* record that record, unchanged.
C9_TokenOutcomes ==
    /\ \A c \in TokenCalls :
          LET r == call[c].resp
              res == call[c].result
          IN /\ TokenOutcome(r) = "transport" =>
                    res.st = "err" /\ ~StartsWith(res.err, PfxTokenParse)
             /\ TokenOutcome(r) = "status" =>
                    /\ res.st = "err"
                    /\ EndsWith(res.err, r.text)
                    /\ ~StartsWith(res.err, PfxTokenParse)
             /\ TokenOutcome(r) = "malformed" =>
                    res.st = "err" /\ StartsWith(res.err, PfxTokenParse)
             /\ TokenOutcome(r) = "valid" =>
                    /\ res.st = "ok"
                    /\ DOMAIN res.val = TokenFields
                    /\ \A f \in TokenFields :
                          res.val[f] = IF f \in DOMAIN r.json.fields
                                       THEN r.json.fields[f] ELSE JNull
    /\ \A c, d \in TokenCalls :
          (call[c].op = call[d].op
             /\ TokenOutcome(call[c].resp) # TokenOutcome(call[d].resp))
            => call[c].result # call[d].result

C9_Witness ==
    \E c, d \in TokenCalls :
        /\ call[c].op = "exchange_google_code" /\ call[d].op = "exchange_google_code"
        /\ TokenOutcome(call[c].resp) = "status" /\ call[c].resp.text = BodyDenied
        /\ TokenOutcome(call[d].resp) = "malformed" /\ call[d].resp.json = TokenTextExpiry
        /\ call[c].result # call[d].result

----------------------------------------------------------------------------
(* Properties of create_google_form and scan_drive_forms *)

Contains(s, part) == \E i \in 0..(Len(s) - Len(part)) : SubSeq(s, i + 1, i + Len(part)) = part

\* create_google_form invocations that have returned.
FormCallsDone ==
    {c \in DOMAIN call : call[c].op = "create_google_form" /\ call[c].pc = "done"}

\* The invocation returned Ok with the identifiers of the form the service created.
ReturnsCreatedForm(c) ==
    /\ call[c].result.st = "ok"
    /\ call[c].result.val.formId = call[c].created.fields.formId.v
    /\ call[c].result.val.responderUri = call[c].created.fields.responderUri.v

\* C1: once the form is created and parsed, a failure of move_file_to_folder
\* (no response, or a non-2xx PATCH) leaves the outcome as it was:
\* create_google_form returns Ok with the created form's formId and responderUri.
C1_MoveFailureIgnored ==
    \A c \in FormCallsDone : call[c].warning.st = "err" => ReturnsCreatedForm(c)

C1_Witness ==
    \E c \in FormCallsDone :
        /\ call[c].warning = Err(PfxMoveStatus \o Text403)
        /\ call[c].resp.kind = "http" /\ call[c].resp.status = 403
        /\ ReturnsCreatedForm(c)

\* C2: once the form is created, nothing that goes wrong in the side step
\* (find_folder, create_folder, move_file_to_folder) makes create_google_form
\* fail: it returns Ok with the created form.
C2_SideStepNeverFatal ==
    \A c \in FormCallsDone : call[c].created # None => ReturnsCreatedForm(c)

\* C3: a non-2xx response to any request of an operation makes the operation
\* fail with a string that contains the text of that response's body.
C3_FailureCarriesBody ==
    \A c \in DOMAIN call :
        (call[c].pc = "done" /\ call[c].resp.kind = "http" /\ ~is_success(call[c].resp.status))
            => /\ call[c].result.st = "err"
               /\ Contains(call[c].result.err, call[c].resp.text)

----------------------------------------------------------------------------
(* Properties of send_gmail_email *)

\* The 6-bit value of a character of the URL-safe alphabet.
SextetOf(c) == (CHOOSE i \in 1..64 : UrlSafeAlphabet[i] = c) - 1

\* The bytes a base64url text stands for: padding stripped, four characters to
\* three bytes, a last group of two or three characters to one or two bytes.
RECURSIVE SextetsToBytes(_)
SextetsToBytes(s) ==
    IF Len(s) < 2 THEN <<>>
    ELSE IF Len(s) = 2 THEN <<s[1] * 4 + (s[2] \div 16)>>
    ELSE IF Len(s) = 3
         THEN <<s[1] * 4 + (s[2] \div 16), (s[2] % 16) * 16 + (s[3] \div 4)>>
    ELSE <<s[1] * 4 + (s[2] \div 16), (s[2] % 16) * 16 + (s[3] \div 4),
           (s[3] % 4) * 64 + s[4]>> \o SextetsToBytes(Tail0(s, 4))

Unpadded(text) == SelectSeq(text, LAMBDA c : c # "=")

Base64UrlDecode(text) ==
    SextetsToBytes([i \in 1..Len(Unpadded(text)) |-> SextetOf(Unpadded(text)[i])])

IsBase64UrlText(text) ==
    \A i \in 1..Len(text) : text[i] = "=" \/ \E k \in 1..64 : UrlSafeAlphabet[k] = text[i]

\* The raw field send_gmail_email posted, and the message it stands for.
RawPosted == mail.body.fields.raw.v
MessageBytes == as_bytes(EmailContent(mail.args))

Posted == mail.op = "send_gmail_email" /\ mail.pc = "done"

\* C10 as claimed: the raw field is the base64url encoding of the message
\* without padding; it holds no "=".
C10_RawUnpadded ==
    Posted => /\ IsBase64UrlText(RawPosted)
              /\ Base64UrlDecode(RawPosted) = MessageBytes
              /\ \A i \in 1..Len(RawPosted) : RawPosted[i] # "="

\* C10 as amended: the raw field is the base64url encoding of the message
\* with padding: a multiple of four characters that decodes to the message,
\* ending in as many "=" as the last group of bytes falls short of three.
C10_RawPadded ==
    Posted => /\ IsBase64UrlText(RawPosted)
              /\ Base64UrlDecode(RawPosted) = MessageBytes
              /\ Len(RawPosted) % 4 = 0
              /\ Len(RawPosted) - Len(Unpadded(RawPosted)) = (3 - (Len(MessageBytes) % 3)) % 3
              /\ Head0(RawPosted, Len(Unpadded(RawPosted))) = Unpadded(RawPosted)

C10_Witness ==
    /\ Posted
    /\ Len(MessageBytes) % 3 = 1
    /\ Tail0(RawPosted, Len(RawPosted) - 2) = <<"=", "=">>
    /\ mail.result.st = "ok"

\* Reading a raw message as headers, then body: the header block ends at the
\* first empty line, its lines end in CR LF, a field is the first line that
\* begins with the field's name, and a mailbox is a name, a space and the
\* address in angle brackets.
CRLF == <<"\r", "\n">>

RECURSIVE SplitOn(_, _)
SplitOn(s, pat) ==
    LET i == Find(s, pat) IN
    IF i < 0 THEN <<s>> ELSE <<Head0(s, i)>> \o SplitOn(Tail0(s, i + Len(pat)), pat)

HeaderLines(text) ==
    LET i == Find(text, CRLF \o CRLF) IN SplitOn(IF i < 0 THEN text ELSE Head0(text, i), CRLF)

BodyText(text) ==
    LET i == Find(text, CRLF \o CRLF) IN
    IF i < 0 THEN [found |-> FALSE] ELSE [found |-> TRUE, value |-> Tail0(text, i + 4)]

FieldOf(text, name) ==
    LET hits == SelectSeq(HeaderLines(text), LAMBDA l : StartsWith(l, name)) IN
    IF hits = <<>> THEN [found |-> FALSE]
    ELSE [found |-> TRUE, value |-> Tail0(hits[1], Len(name))]

MailboxOf(field) ==
    IF ~field.found THEN [found |-> FALSE]
    ELSE LET v == field.value
             opens == {i \in 0..(Len(v) - 2) : SubSeq(v, i + 1, i + 2) = <<" ", "<">>}
         IN IF opens = {} \/ ~EndsWith(v, <<">">>) THEN [found |-> FALSE]
            ELSE LET i == CHOOSE k \in opens : \A j \in opens : j <= k
                 IN [found |-> TRUE, name |-> Head0(v, i),
                     email |-> SubSeq(v, i + 3, Len(v) - 1)]

FieldFrom == <<"F", "r", "o", "m", ":", " ">>
FieldTo == <<"T", "o", ":", " ">>
FieldSubject == <<"S", "u", "b", "j", "e", "c", "t", ":", " ">>

Recovers(text, a) ==
    LET from == MailboxOf(FieldOf(text, FieldFrom))
        to == MailboxOf(FieldOf(text, FieldTo))
        subject == FieldOf(text, FieldSubject)
        body == BodyText(text)
    IN /\ from.found /\ from.name = a.from_name /\ from.email = a.from_email
       /\ to.found /\ to.name = a.to_name /\ to.email = a.to_email
       /\ subject.found /\ subject.value = a.subject
       /\ body.found /\ body.value = a.html_body

HasLineBreak(s) == \E i \in 1..Len(s) : s[i] \in {"\r", "\n"}

\* C11: reading the message send_gmail_email built as headers, then body,
\* gives back the from, to, subject and body it was called with, also when
\* one of them holds CR or LF.
C11_RoundTrip == Posted => Recovers(mail.email_content, mail.args)

\* The same for the calls whose subject holds neither CR nor LF.
PlainSubjectRoundTrip ==
    (Posted /\ ~HasLineBreak(mail.args.subject)) => Recovers(mail.email_content, mail.args)

----------------------------------------------------------------------------
(* Termination *)

\* C12: every invocation of wait_for_oauth_callback, as of every exposed
\* operation, eventually returns a result to its caller.
C12_EveryCallReturns ==
    \A w \in 1..MaxWaits : (wait[w].pc # "idle") ~> (wait[w].pc = "terminated")

----------------------------------------------------------------------------
(* Properties of send_invoice_email *)

\* C13: the port configured on the SMTP transport is numerically equal to
\* the smtp_port of the settings, for every i32 the command accepts.
C13_PortAsSupplied ==
    (mail.op = "send_invoice_email" /\ mail.mailer.st = "built")
        => mail.mailer.port = mail.smtp_port

----------------------------------------------------------------------------
(* Properties of the locate-or-create step *)

\* C14: from a Drive without a po-tracker folder, concurrent
\* create_google_form and scan_drive_forms invocations create at most one
\* po-tracker folder, and all of them work with that same folder: the one a
\* form is moved into is the one a scan lists.
C14_OneFolder ==
    /\ Cardinality(drive.folders) <= 1
    /\ \A c, d \in DOMAIN call :
          (call[c].folder_id # "" /\ call[d].folder_id # "")
              => call[c].folder_id = call[d].folder_id

----------------------------------------------------------------------------
(* Properties of add_form_questions *)

\* The name a supplied question carries, Product when it carries none.
SuppliedName(q) ==
    IF q.t = "obj" /\ "name" \in DOMAIN q.fields /\ q.fields.name.t = "str"
    THEN q.fields.name.v ELSE <<"P", "r", "o", "d", "u", "c", "t">>

RequestsOf(cl) == cl.posted[1].fields.requests.items
IndexAt(cl, k) == RequestsOf(cl)[k].fields.createItem.fields.location.fields.index.v
TitleAt(cl, k) == RequestsOf(cl)[k].fields.createItem.fields.item.fields.title.v

QuestionsSent(c) == call[c].op = "add_form_questions" /\ call[c].pc = "done"

\* C15: for a list of n questions add_form_questions sends one batchUpdate
\* whose requests are n+2 createItem entries: Your Name at index 0, Your Email
\* at index 1, then the i-th question (from 0) at index i+2; the indices are
\* 0..n+1, each the position of its entry, no two alike.
C15_CreateItemIndices ==
    \A c \in DOMAIN call :
        QuestionsSent(c) =>
            LET cl == call[c]
                n == Len(cl.questions)
            IN /\ Len(cl.posted) = 1
               /\ DOMAIN cl.posted[1].fields = {"requests"}
               /\ Len(RequestsOf(cl)) = n + 2
               /\ \A k \in 1..(n + 2) :
                     /\ DOMAIN RequestsOf(cl)[k].fields = {"createItem"}
                     /\ IndexAt(cl, k) = k - 1
               /\ TitleAt(cl, 1) = <<"Y", "o", "u", "r", " ", "N", "a", "m", "e">>
               /\ TitleAt(cl, 2) = <<"Y", "o", "u", "r", " ", "E", "m", "a", "i", "l">>
               /\ \A i \in 0..(n - 1) :
                     TitleAt(cl, i + 3)
                         = <<"Q", "u", "a", "n", "t", "i", "t", "y", ":", " ">>
                               \o SuppliedName(cl.questions[i + 1])
               /\ {IndexAt(cl, k) : k \in 1..(n + 2)} = 0..(n + 1)
               /\ \A j, k \in 1..(n + 2) : j # k => IndexAt(cl, j) # IndexAt(cl, k)

C15_Witness ==
    \E c \in DOMAIN call :
        /\ QuestionsSent(c)
        /\ Len(call[c].questions) = 2
        /\ call[c].questions[1] # call[c].questions[2]
        /\ call[c].result.st = "ok"
        /\ IndexAt(call[c], 4) = 3

====
